---- MODULE Spec2Model ----
(***************************************************************************)
(* sharper (src/index.js): an express middleware that stages an uploaded   *)
(* image with multer, derives one variant per configured size with sharp,  *)
(* and unlinks the staged master.                                          *)
(*                                                                         *)
(* The model follows the middleware callback by callback.  One invocation  *)
(* of the middleware is one element of invs; every piece of per-request    *)
(* state is a function over invs.  The closure variable options, the file  *)
(* system and sharp's cache switch are shared by all invocations.          *)
(***************************************************************************)
EXTENDS Naturals, Sequences, FiniteSets, TLC

VARIABLES
    overrides,   \* the options object the caller hands to sharper()
    options,     \* the closure variable options after _.assign (line 143)
    invs,        \* the middleware invocations of this run
    req,         \* per invocation: the multipart request
    stage,       \* per invocation: position of the waterfall
    state,       \* per invocation: {dir, destination, filename}
    master,      \* per invocation: calls accumulated on the sharp instance
    toFile,      \* per invocation: per size index, the $query.toFile operation
    completed,   \* per invocation: async.each's count of successful iteratees
    eachCalled,  \* per invocation: async.each's callback has been called
    unlinkOp,    \* per invocation: the fs.unlink operation
    nextCalls,   \* per invocation: how many times next was called
    nextErr,     \* per invocation: the argument of the last next call
    resSharper,  \* per invocation: res.sharper
    log,         \* per invocation: history of the I/O events, in order
    fileSys,     \* the file system: path -> content
    sharpCache   \* sharp's process-wide cache switch

vars == <<overrides, options, invs, req, stage, state, master, toFile,
          completed, eachCalled, unlinkOp, nextCalls, nextErr, resSharper,
          log, fileSys, sharpCache>>

(***************************************************************************)
(* Bounds of the model.                                                    *)
(***************************************************************************)
MaxSizes == 2

(***************************************************************************)
(* JavaScript values.  Every option value has the same record shape, so    *)
(* that a boolean, a number, a string and an object can be compared.       *)
(***************************************************************************)
Bool(b) == [t |-> "bool", b |-> b, n |-> 0, s |-> ""]
Num(n) == [t |-> "num", b |-> FALSE, n |-> n, s |-> ""]
Str(s) == [t |-> "str", b |-> FALSE, n |-> 0, s |-> s]
Obj(s) == [t |-> "obj", b |-> FALSE, n |-> 0, s |-> s]
NaN == [t |-> "nan", b |-> FALSE, n |-> 0, s |-> ""]
JsFalse == Bool(FALSE)
JsTrue == Bool(TRUE)

\* _.toInteger: booleans become 0/1, a non-numeric string or an object NaN -> 0
ToInteger(v) ==
    CASE v.t = "num" -> Num(v.n)
      [] v.t = "bool" -> Num(IF v.b THEN 1 ELSE 0)
      [] OTHER -> Num(0)

\* _.toNumber: as toInteger, but a non-numeric string or an object stays NaN
ToNumber(v) ==
    CASE v.t = "num" -> Num(v.n)
      [] v.t = "bool" -> Num(IF v.b THEN 1 ELSE 0)
      [] OTHER -> NaN

(***************************************************************************)
(* Configuration: defaultOptions and _.assign(defaultOptions, options).    *)
(***************************************************************************)
Size(suffix, width, height) ==
    [suffix |-> suffix, width |-> width, height |-> height]

defaultOptions ==
    [field |-> Str("file"),
     location |-> Str("/var/www/uploads/"),
     dirFormat |-> Str("yyyy/mmm/d"),
     fileNameLen |-> Num(50),
     maxFileSize |-> Str("10mb"),
     accept |-> <<"png", "jpeg", "jpg">>,
     output |-> Str("jpg"),
     sizes |-> <<Size("lg", 500, 500)>>,
     resize |-> JsTrue,
     crop |-> JsFalse,
     background |-> Obj("rgba(200,200,200,1)"),
     embed |-> JsFalse,
     max |-> JsFalse,
     min |-> JsFalse,
     withoutEnlargement |-> JsFalse,
     ignoreAspectRatio |-> JsFalse,
     extract |-> JsFalse,
     trim |-> JsFalse,
     flatten |-> JsFalse,
     extend |-> JsFalse,
     negate |-> JsFalse,
     rotate |-> JsFalse,
     flip |-> JsFalse,
     flop |-> JsFalse,
     blur |-> JsFalse,
     sharpen |-> JsFalse,
     gamma |-> JsFalse,
     grayscale |-> JsFalse,
     greyscale |-> JsFalse,
     normalize |-> JsFalse,
     normalise |-> JsFalse,
     progressive |-> JsFalse,
     quality |-> JsFalse]

\* The own enumerable keys of an object, in some order.
RECURSIVE KeysOf(_)
KeysOf(S) ==
    IF S = {} THEN <<>>
    ELSE LET k == CHOOSE x \in S : TRUE IN <<k>> \o KeysOf(S \ {k})

\* a wrong merge (_.defaults): a key the object has is kept
AssignKey_KeepsOld(object, source, key) ==
    [k \in DOMAIN object \cup {key} |->
        IF k \in DOMAIN object THEN object[k] ELSE source[key]]

\* One step of _.assign: object[key] = source[key].
AssignKey(object, source, key) ==
    [k \in DOMAIN object \cup {key} |->
        IF k = key THEN source[key] ELSE object[k]]

\* _.assign(object, source): copy every own key of source onto object.
RECURSIVE AssignKeys(_, _, _)
AssignKeys(object, source, keys) ==
    IF keys = <<>> THEN object
    ELSE AssignKeys(AssignKey(object, source, Head(keys)), source, Tail(keys))

Assign(object, source) == AssignKeys(object, source, KeysOf(DOMAIN source))

(***************************************************************************)
(* The iteratee of async.each (lines 223-356): the calls it makes on the   *)
(* sharp instance for one size, in order.                                  *)
(***************************************************************************)
Op(name, args) == [op |-> name, args |-> args]

\* sharp.gravity: the crop anchors sharp knows, with their numeric values.
sharpGravity ==
    [north |-> 1, northeast |-> 5, east |-> 2, southeast |-> 6, south |-> 3,
     southwest |-> 7, west |-> 4, northwest |-> 8, center |-> 0, centre |-> 0]

\* _.has(sharp.gravity, options.crop)
HasGravity(v) == v.t = "str" /\ v.s \in DOMAIN sharpGravity

\* _.includes([0, 90, 180, 270], options.rotate)
ValidRotate(v) == v.t = "num" /\ v.n \in {0, 90, 180, 270}

\* a wrong check: one spelling only
WantsGrayscale_OneSpelling(opts) == opts.grayscale = JsTrue

\* options.grayscale === true || options.greyscale === true   (line 326)
WantsGrayscale(opts) == opts.grayscale = JsTrue \/ opts.greyscale = JsTrue

\* options.normalize === true || options.normalise === true   (line 331)
WantsNormalize(opts) == opts.normalize = JsTrue \/ opts.normalise = JsTrue

\* a wrong chain: the call is put in front of the ones made so far
Step_InFront(q, cond, name, args) ==
    IF cond THEN <<Op(name, args)>> \o q ELSE q

\* if (cond) $query = $query.op(args)
Step(q, cond, name, args) == IF cond THEN Append(q, Op(name, args)) ELSE q

\* blur and gamma: no argument for true, _.toNumber(value) otherwise
\* a wrong call: true is handed on like any other value
ValueOrDefault_Always(v) == <<ToNumber(v)>>

ValueOrDefault(v) == IF v = JsTrue THEN <<>> ELSE <<ToNumber(v)>>

BuildQuery(opts, size) ==
    LET q0 == <<Op("background", <<opts.background>>)>>
        q1 == Step(q0, opts.resize = JsTrue, "resize",
                   <<Num(size.width), Num(size.height)>>)
        q2 == Step(q1, opts.crop # JsFalse /\ HasGravity(opts.crop), "crop",
                   IF HasGravity(opts.crop)
                   THEN <<Num(sharpGravity[opts.crop.s])>> ELSE <<>>)
        q3 == Step(q2, opts.embed = JsTrue, "embed", <<>>)
        q4 == Step(q3, opts.max = JsTrue, "max", <<>>)
        q5 == Step(q4, opts.min = JsTrue, "min", <<>>)
        q6 == Step(q5, opts.withoutEnlargement = JsTrue,
                   "withoutEnlargement", <<>>)
        q7 == Step(q6, opts.ignoreAspectRatio = JsTrue,
                   "ignoreAspectRatio", <<>>)
        q8 == Step(q7, opts.extract # JsFalse, "extract", <<opts.extract>>)
        q9 == Step(q8, opts.trim # JsFalse, "trim", <<ToInteger(opts.trim)>>)
        q10 == Step(q9, opts.flatten = JsTrue, "flatten", <<>>)
        q11 == Step(q10, opts.extend # JsFalse, "extend", <<opts.extend>>)
        q12 == Step(q11, opts.negate = JsTrue, "negate", <<>>)
        q13 == Step(q12, ValidRotate(opts.rotate), "rotate", <<opts.rotate>>)
        q14 == Step(q13, opts.flip = JsTrue, "flip", <<>>)
        q15 == Step(q14, opts.flop = JsTrue, "flop", <<>>)
        q16 == Step(q15, opts.blur # JsFalse, "blur", ValueOrDefault(opts.blur))
        q17 == Step(q16, opts.sharpen = JsTrue, "sharpen", <<>>)
        q18 == Step(q17, opts.gamma # JsFalse, "gamma",
                    ValueOrDefault(opts.gamma))
        q19 == Step(q18, WantsGrayscale(opts), "grayscale", <<>>)
        q20 == Step(q19, WantsNormalize(opts), "normalize", <<>>)
        q21 == Step(q20, opts.quality # JsFalse, "quality",
                    <<ToInteger(opts.quality)>>)
        q22 == Step(q21, opts.progressive = JsTrue, "progressive", <<>>)
    IN  q22

\* state.destination + '/' + state.filename
MasterPath(st) == st.destination \o "/" \o st.filename

\* a wrong path: the generated filename is left out
VariantPath_NoName(st, size, opts) ==
    st.destination \o "/" \o size.suffix \o "." \o opts.output.s

\* state.destination + '/' + state.filename + '.' + size.suffix + '.' + options.output
VariantPath(st, size, opts) ==
    st.destination \o "/" \o st.filename \o "." \o size.suffix \o "." \o opts.output.s

(***************************************************************************)
(* Errors.  Serror (lines 34-39) fills message, code and field; the errors *)
(* of multer, sharp and fs are given the same shape.  at and k say which   *)
(* operation raised the error (in the program: the identity of the         *)
(* object).                                                                *)
(***************************************************************************)
Null == "<null>"
MimeNone == "<false>"

\* JavaScript's falsy values among the strings of the model
Falsy(x) == x \in {"", Null, MimeNone}

Serror(message, code, field) ==
    [message |-> IF Falsy(message) THEN "error occurred." ELSE message,
     code |-> IF Falsy(code) THEN Null ELSE code,
     field |-> IF Falsy(field) THEN Null ELSE field,
     at |-> "fileFilter", k |-> 0]

LibError(code, at, k) ==
    [message |-> code, code |-> code, field |-> Null, at |-> at, k |-> k]

NoErr == [message |-> "", code |-> "", field |-> "", at |-> "", k |-> 0]

NoState == [dir |-> "", destination |-> "", filename |-> ""]

(***************************************************************************)
(* The environment: requests, dates, random names.                         *)
(***************************************************************************)
\* parts: file parts in the field options.field; ext: mime.extension of the
\* first one's media type (MimeNone when the type has none); big: it is longer
\* than options.maxFileSize
Request(parts, ext, big) == [parts |-> parts, ext |-> ext, big |-> big]

Requests ==
    {Request(0, MimeNone, FALSE),
     Request(1, "png", FALSE),
     Request(1, "gif", FALSE),
     Request(1, MimeNone, FALSE),
     Request(1, "png", TRUE),
     Request(2, "png", FALSE)}

\* dateformat(new Date(), options.dirFormat)
Dirs == {"2026/Nov/4"}

\* randomstring.generate(options.fileNameLen)
Names == {"aB3", "x9Q"}

\* _.includes(options.accept, fileExt)
Includes(list, x) == \E j \in 1..Len(list) : list[j] = x

(***************************************************************************)
(* Files.                                                                  *)
(***************************************************************************)
Exists(fs, path) == path \in DOMAIN fs

WriteFile(fs, path, content) ==
    [p \in DOMAIN fs \cup {path} |-> IF p = path THEN content ELSE fs[p]]

\* a wrong unlink: the file stays
RemoveFile_Keeps(fs, path) == fs

RemoveFile(fs, path) == [p \in DOMAIN fs \ {path} |-> fs[p]]

MasterFile(i) == [by |-> i, kind |-> "master", image |-> <<>>]

VariantFile(i, image) == [by |-> i, kind |-> "variant", image |-> image]

NoFiles == [p \in {} |-> MasterFile(0)]

(***************************************************************************)
(* History events.                                                         *)
(***************************************************************************)
Ev(name, k) == [ev |-> name, k |-> k]

RECURSIVE IssueEvents(_, _)
IssueEvents(k, n) ==
    IF k > n THEN <<>> ELSE <<Ev("toFileIssued", k)>> \o IssueEvents(k + 1, n)

(***************************************************************************)
(* async.each (lines 221-365).                                             *)
(***************************************************************************)
\* a wrong async.each: it calls back as soon as one iteratee has finished
EachFinished_First(done, n) == done = n \/ done >= 1

\* a wrong async.each: with no item it never calls back
EachFinished_NonEmpty(done, n) == n > 0 /\ done = n

\* a wrong async.each: it waits for one callback more than there are items
EachFinished_OneMore(done, n) == done = n + 1

\* every iteratee has called back without an error
EachFinished(done, n) == done = n

\* a wrong async.each: its final callback is not guarded
MayCallBack_Always(called) == TRUE

\* the final callback of async.each is called at most once
MayCallBack(called) == ~called

\* The iteratees run one after the other, each on the same sharp instance:
\* the calls of size k follow those of the sizes before it.
RECURSIVE CallsUpTo(_, _)
CallsUpTo(opts, k) ==
    IF k = 0 THEN <<>>
    ELSE CallsUpTo(opts, k - 1) \o BuildQuery(opts, opts.sizes[k])

\* a wrong toFile: the instance is read when the image is processed, after
\* every iteratee has run, and not when toFile is called
ToFileOp_ReadLate(opts, st, k) ==
    [status |-> "pending",
     path |-> VariantPath(st, opts.sizes[k], opts),
     calls |-> BuildQuery(opts, opts.sizes[k]),
     image |-> CallsUpTo(opts, Len(opts.sizes))]

\* $query.toFile(path, cb) of size k: what sharp is asked to write
ToFileOp(opts, st, k) ==
    [status |-> "pending",
     path |-> VariantPath(st, opts.sizes[k], opts),
     calls |-> BuildQuery(opts, opts.sizes[k]),
     image |-> CallsUpTo(opts, k)]

(***************************************************************************)
(* The middleware (lines 151-409).                                         *)
(***************************************************************************)
Upd(f, i, v) == [f EXCEPT ![i] = v]

Logged(i, evs) == log' = Upd(log, i, log[i] \o evs)

Accepted(i) == Includes(options.accept, req[i].ext)

\* a wrong waterfallCallback: the error is not looked at
WaterfallCallback_NoCheck(i, err, st) ==
    /\ nextCalls' = Upd(nextCalls, i, nextCalls[i] + 1)
    /\ nextErr' = Upd(nextErr, i, NoErr)
    /\ stage' = Upd(stage, i, "DONE")
    /\ resSharper' = Upd(resSharper, i, st)

\* waterfallCallback (lines 396-407)
WaterfallCallback(i, err, st) ==
    /\ nextCalls' = Upd(nextCalls, i, nextCalls[i] + 1)
    /\ IF err # NoErr
       THEN /\ nextErr' = Upd(nextErr, i, err)
            /\ stage' = Upd(stage, i, "FAILED")
            /\ resSharper' = resSharper
       ELSE /\ nextErr' = Upd(nextErr, i, NoErr)
            /\ stage' = Upd(stage, i, "DONE")
            /\ resSharper' = Upd(resSharper, i, st)

\* deleteMaster (lines 375-386): switch sharp's cache off, issue fs.unlink
DeleteMaster(i) ==
    /\ sharpCache' = FALSE
    /\ unlinkOp' = Upd(unlinkOp, i, "pending")
    /\ stage' = Upd(stage, i, "CLEANING")

\* processImages (lines 216-366), entered from masterUploader's callback with
\* no error: open the master, run every iteratee, each issuing its toFile.
\* With no size async.each calls back at once and deleteMaster runs.
ProcessImages(i) ==
    LET n == Len(options.sizes) IN
    /\ master' = Upd(master, i, [path |-> MasterPath(state[i]),
                                 calls |-> CallsUpTo(options, n)])
    /\ toFile' = Upd(toFile, i, [k \in 1..n |-> ToFileOp(options, state[i], k)])
    /\ IF EachFinished(0, n)
       THEN /\ eachCalled' = Upd(eachCalled, i, TRUE)
            /\ DeleteMaster(i)
            /\ Logged(i, <<Ev("uploadDone", 0), Ev("processImages", 0),
                           Ev("unlinkIssued", 0)>>)
       ELSE /\ stage' = Upd(stage, i, "TRANSFORMING")
            /\ Logged(i, <<Ev("uploadDone", 0), Ev("processImages", 0)>>
                           \o IssueEvents(1, n))
            /\ UNCHANGED <<eachCalled, unlinkOp, sharpCache>>
    /\ UNCHANGED <<overrides, options, invs, req, state, completed,
                   nextCalls, nextErr, resSharper>>

\* the middleware is called: lines 164-193, up to running masterUploader
Invoke(i) ==
    /\ stage[i] = "START"
    /\ \E d \in Dirs, f \in Names :
          state' = Upd(state, i, [dir |-> d,
                                  destination |-> options.location.s \o d,
                                  filename |-> f])
    /\ stage' = Upd(stage, i, "UPLOADING")
    /\ Logged(i, <<Ev("uploadIssued", 0)>>)
    /\ UNCHANGED <<overrides, options, invs, req, master, toFile, completed,
                   eachCalled, unlinkOp, nextCalls, nextErr, resSharper,
                   fileSys, sharpCache>>

\* masterUploader's callback with an error (lines 196-199)
UploadFailed(i, err) ==
    /\ WaterfallCallback(i, err, NoState)
    /\ Logged(i, <<Ev("uploadFailed", 0), Ev("nextErr", 0)>>)
    /\ UNCHANGED <<overrides, options, invs, req, state, master, toFile,
                   completed, eachCalled, unlinkOp, sharpCache>>

\* a wrong order: the file is stored first and its type looked at afterwards
FileFilterReject_AfterWrite(i) ==
    /\ stage[i] = "UPLOADING"
    /\ req[i].parts >= 1
    /\ ~Accepted(i)
    /\ UploadFailed(i, Serror("file not acceptable", "FILE_TYPE_UNSUPPORTED",
                              req[i].ext))
    /\ fileSys' = WriteFile(fileSys, MasterPath(state[i]), MasterFile(i))

\* fileFilter refuses the file (lines 185-192): nothing is written
FileFilterReject(i) ==
    /\ stage[i] = "UPLOADING"
    /\ req[i].parts >= 1
    /\ ~Accepted(i)
    /\ UploadFailed(i, Serror("file not acceptable", "FILE_TYPE_UNSUPPORTED",
                              req[i].ext))
    /\ UNCHANGED fileSys

\* multer's limits (lines 180-184): the file is too long, or there are two;
\* multer removes what it wrote
UploadLimit(i) ==
    /\ stage[i] = "UPLOADING"
    /\ req[i].parts >= 1
    /\ Accepted(i)
    /\ req[i].big \/ req[i].parts > 1
    /\ UploadFailed(i, LibError(IF req[i].big THEN "LIMIT_FILE_SIZE"
                                ELSE "LIMIT_FILE_COUNT", "multer", 0))
    /\ UNCHANGED fileSys

\* the disk storage fails while writing; what it wrote so far may stay
UploadIoError(i) ==
    /\ stage[i] = "UPLOADING"
    /\ req[i].parts >= 1
    /\ Accepted(i)
    /\ UploadFailed(i, LibError("EIO", "multer", 0))
    /\ \/ UNCHANGED fileSys
       \/ fileSys' = WriteFile(fileSys, MasterPath(state[i]),
                               [by |-> i, kind |-> "partial", image |-> <<>>])

\* the file is stored; masterUploader's callback hands the state on (201-205)
UploadOk(i) ==
    /\ stage[i] = "UPLOADING"
    /\ req[i].parts = 1
    /\ Accepted(i)
    /\ ~req[i].big
    /\ fileSys' = WriteFile(fileSys, MasterPath(state[i]), MasterFile(i))
    /\ ProcessImages(i)

\* the request has no file in options.field: multer's single() calls back
\* without an error and without having stored anything
UploadNoFile(i) ==
    /\ stage[i] = "UPLOADING"
    /\ req[i].parts = 0
    /\ UNCHANGED fileSys
    /\ ProcessImages(i)

\* toFile's callback without an error (line 353): the variant is on disk;
\* _cb(null) counts it and the last one lets async.each call back (359-364)
ToFileOk(i, k) ==
    /\ k \in DOMAIN toFile[i]
    /\ toFile[i][k].status = "pending"
    /\ Exists(fileSys, master[i].path)
    /\ fileSys[master[i].path].kind = "master"
    /\ toFile' = Upd(toFile, i, [toFile[i] EXCEPT ![k].status = "ok"])
    /\ fileSys' = WriteFile(fileSys, toFile[i][k].path,
                            VariantFile(i, toFile[i][k].image))
    /\ completed' = Upd(completed, i, completed[i] + 1)
    /\ IF EachFinished(completed[i] + 1, Len(options.sizes))
          /\ MayCallBack(eachCalled[i])
       THEN /\ eachCalled' = Upd(eachCalled, i, TRUE)
            /\ DeleteMaster(i)
            /\ Logged(i, <<Ev("toFileDone", k), Ev("unlinkIssued", 0)>>)
       ELSE /\ Logged(i, <<Ev("toFileDone", k)>>)
            /\ UNCHANGED <<eachCalled, stage, unlinkOp, sharpCache>>
    /\ UNCHANGED <<overrides, options, invs, req, state, master, nextCalls,
                   nextErr, resSharper>>

\* a wrong toFile callback: it drops the error and calls _cb(null)
ToFileErr_Dropped(i, k) ==
    /\ k \in DOMAIN toFile[i]
    /\ toFile[i][k].status = "pending"
    /\ toFile' = Upd(toFile, i, [toFile[i] EXCEPT ![k].status = "err"])
    /\ completed' = Upd(completed, i, completed[i] + 1)
    /\ IF EachFinished(completed[i] + 1, Len(options.sizes))
          /\ MayCallBack(eachCalled[i])
       THEN /\ eachCalled' = Upd(eachCalled, i, TRUE)
            /\ DeleteMaster(i)
            /\ Logged(i, <<Ev("toFileFailed", k), Ev("unlinkIssued", 0)>>)
       ELSE /\ Logged(i, <<Ev("toFileFailed", k)>>)
            /\ UNCHANGED <<eachCalled, stage, unlinkOp, sharpCache>>
    /\ UNCHANGED <<overrides, options, invs, req, state, master, nextCalls,
                   nextErr, resSharper, fileSys>>

\* a toFile callback that cleans up: on an error it unlinks the master
ToFileErr_Cleanup(i, k) ==
    /\ k \in DOMAIN toFile[i]
    /\ toFile[i][k].status = "pending"
    /\ toFile' = Upd(toFile, i, [toFile[i] EXCEPT ![k].status = "err"])
    /\ fileSys' = RemoveFile(fileSys, MasterPath(state[i]))
    /\ IF MayCallBack(eachCalled[i])
       THEN /\ eachCalled' = Upd(eachCalled, i, TRUE)
            /\ WaterfallCallback(i, LibError("SHARP", "toFile", k), NoState)
            /\ Logged(i, <<Ev("toFileFailed", k), Ev("nextErr", 0)>>)
       ELSE /\ Logged(i, <<Ev("toFileFailed", k)>>)
            /\ UNCHANGED <<eachCalled, nextCalls, nextErr, resSharper, stage>>
    /\ UNCHANGED <<overrides, options, invs, req, state, master, completed,
                   unlinkOp, sharpCache>>

\* toFile's callback with an error (lines 350-352): _cb(err); async.each
\* calls back with the first error only
ToFileErr(i, k) ==
    /\ k \in DOMAIN toFile[i]
    /\ toFile[i][k].status = "pending"
    /\ toFile' = Upd(toFile, i, [toFile[i] EXCEPT ![k].status = "err"])
    /\ IF MayCallBack(eachCalled[i])
       THEN /\ eachCalled' = Upd(eachCalled, i, TRUE)
            /\ WaterfallCallback(i, LibError("SHARP", "toFile", k), NoState)
            /\ Logged(i, <<Ev("toFileFailed", k), Ev("nextErr", 0)>>)
       ELSE /\ Logged(i, <<Ev("toFileFailed", k)>>)
            /\ UNCHANGED <<eachCalled, nextCalls, nextErr, resSharper, stage>>
    /\ UNCHANGED <<overrides, options, invs, req, state, master, completed,
                   unlinkOp, fileSys, sharpCache>>

\* fs.unlink's callback without an error (line 384), then waterfallCallback
UnlinkOk(i) ==
    /\ unlinkOp[i] = "pending"
    /\ Exists(fileSys, MasterPath(state[i]))
    /\ unlinkOp' = Upd(unlinkOp, i, "ok")
    /\ fileSys' = RemoveFile(fileSys, MasterPath(state[i]))
    /\ WaterfallCallback(i, NoErr, state[i])
    /\ Logged(i, <<Ev("unlinkDone", 0), Ev("next", 0)>>)
    /\ UNCHANGED <<overrides, options, invs, req, state, master, toFile,
                   completed, eachCalled, sharpCache>>

\* fs.unlink's callback with an error (lines 381-383): the file is not
\* there, or it may not be removed
UnlinkErr(i) ==
    /\ unlinkOp[i] = "pending"
    /\ unlinkOp' = Upd(unlinkOp, i, "err")
    /\ WaterfallCallback(i, LibError(IF Exists(fileSys, MasterPath(state[i]))
                                     THEN "EPERM" ELSE "ENOENT", "unlink", 0),
                         NoState)
    /\ Logged(i, <<Ev("unlinkFailed", 0), Ev("nextErr", 0)>>)
    /\ UNCHANGED <<overrides, options, invs, req, state, master, toFile,
                   completed, eachCalled, fileSys, sharpCache>>

(***************************************************************************)
(* The caller's options objects the model is run with.                     *)
(***************************************************************************)
NoOverrides == [k \in {} |-> JsFalse]

\* b's keys over a's: how two option objects are put together
Merge(a, b) ==
    [k \in DOMAIN a \cup DOMAIN b |-> IF k \in DOMAIN b THEN b[k] ELSE a[k]]

SizePool == {Size("lg", 500, 500), Size("sm", 100, 100), Size("lg", 50, 50)}

\* the lists of at most MaxSizes different entries of the pool; two entries
\* of a list may carry the same suffix
SizeLists ==
    {l \in UNION {[1..m -> SizePool] : m \in 0..MaxSizes} :
        \A a, b \in DOMAIN l : a # b => l[a] # l[b]}

SizeOverrides == {NoOverrides} \cup {[sizes |-> l] : l \in SizeLists}

ToggleOverrides ==
    {NoOverrides,
     [grayscale |-> JsTrue],
     [greyscale |-> JsTrue],
     [normalise |-> JsTrue],
     [resize |-> JsFalse],
     [accept |-> <<"gif", "png">>],
     [output |-> Str("png"), rotate |-> Num(90)]}

NarrowOverrides == {Merge(a, b) : a \in ToggleOverrides, b \in SizeOverrides}

\* one key each: every toggle in a skip state, a default state or a value
SingleOverrides ==
    {NoOverrides,
     [resize |-> JsFalse], [resize |-> Num(1)],
     [crop |-> Str("north")], [crop |-> Str("centre")], [crop |-> Str("top")],
     [crop |-> JsTrue],
     [background |-> JsFalse], [background |-> Obj("rgba(0,0,0,0)")],
     [embed |-> JsTrue], [max |-> JsTrue], [min |-> JsTrue],
     [withoutEnlargement |-> JsTrue], [ignoreAspectRatio |-> JsTrue],
     [extract |-> Obj("left:0,top:0,width:10,height:10")],
     [trim |-> Num(10)], [trim |-> JsTrue], [trim |-> Str("x")],
     [flatten |-> JsTrue], [extend |-> Obj("top:1")], [negate |-> JsTrue],
     [rotate |-> Num(0)], [rotate |-> Num(90)], [rotate |-> Num(45)],
     [rotate |-> JsTrue],
     [flip |-> JsTrue], [flop |-> JsTrue],
     [blur |-> JsTrue], [blur |-> Num(3)], [blur |-> Str("x")],
     [sharpen |-> JsTrue],
     [gamma |-> JsTrue], [gamma |-> Num(2)],
     [grayscale |-> JsTrue], [greyscale |-> JsTrue], [grayscale |-> Num(1)],
     [greyscale |-> JsFalse],
     [normalize |-> JsTrue], [normalise |-> JsTrue], [normalize |-> Str("yes")],
     [quality |-> Num(80)], [quality |-> JsTrue],
     [progressive |-> JsTrue],
     [output |-> Str("png")], [accept |-> <<"gif">>],
     [fileNameLen |-> Num(8)], [watermark |-> JsTrue]}

WideOverrides ==
    {Merge(Merge(a, b), c) : a \in SingleOverrides, b \in SingleOverrides,
                             c \in {NoOverrides,
                                    [sizes |-> <<Size("lg", 500, 500),
                                                 Size("sm", 100, 100)>>]}}

(***************************************************************************)
(* Specifications.                                                         *)
(***************************************************************************)
\* sharper(options) has returned the middleware; no request has come in yet
InitFrom(ovs, is) ==
    /\ overrides \in ovs
    /\ options = Assign(defaultOptions, overrides)
    /\ invs = is
    /\ req \in [is -> Requests]
    /\ stage = [i \in is |-> "START"]
    /\ state = [i \in is |-> NoState]
    /\ master = [i \in is |-> [path |-> "", calls |-> <<>>]]
    /\ toFile = [i \in is |-> <<>>]
    /\ completed = [i \in is |-> 0]
    /\ eachCalled = [i \in is |-> FALSE]
    /\ unlinkOp = [i \in is |-> "idle"]
    /\ nextCalls = [i \in is |-> 0]
    /\ nextErr = [i \in is |-> NoErr]
    /\ resSharper = [i \in is |-> NoState]
    /\ log = [i \in is |-> <<>>]
    /\ fileSys = NoFiles
    /\ sharpCache = TRUE

Init == InitFrom(NarrowOverrides, {1})

InitConfig == InitFrom(WideOverrides, {1})

Next ==
    \/ \E i \in invs : Invoke(i)
    \/ \E i \in invs : FileFilterReject(i)
    \/ \E i \in invs : UploadLimit(i)
    \/ \E i \in invs : UploadIoError(i)
    \/ \E i \in invs : UploadOk(i)
    \/ \E i \in invs : UploadNoFile(i)
    \/ \E i \in invs : \E k \in DOMAIN toFile[i] : ToFileOk(i, k)
    \/ \E i \in invs : \E k \in DOMAIN toFile[i] : ToFileErr(i, k)
    \/ \E i \in invs : UnlinkOk(i)
    \/ \E i \in invs : UnlinkErr(i)

\* one request, a few configurations, every list of sizes
Spec == Init /\ [][Next]_vars

\* one request, many configurations
SpecConfig == InitConfig /\ [][Next]_vars

\* two requests with the same content on one middleware: no size, the
\* default size, or two sizes
TwoOverrides ==
    {NoOverrides, [sizes |-> <<>>],
     [sizes |-> <<Size("lg", 500, 500), Size("sm", 100, 100)>>]}

InitTwo == InitFrom(TwoOverrides, {1, 2}) /\ req[1] = req[2]

SpecTwo == InitTwo /\ [][Next]_vars

\* every I/O operation that was issued comes back: multer's upload, each
\* toFile, fs.unlink
UploadReturns(i) ==
    \/ FileFilterReject(i)
    \/ UploadLimit(i)
    \/ UploadIoError(i)
    \/ UploadOk(i)
    \/ UploadNoFile(i)

ToFileReturns(i, k) == ToFileOk(i, k) \/ ToFileErr(i, k)

UnlinkReturns(i) == UnlinkOk(i) \/ UnlinkErr(i)

IoReturns ==
    /\ WF_vars(UploadReturns(1))
    /\ \A k \in 1..MaxSizes : WF_vars(ToFileReturns(1, k))
    /\ WF_vars(UnlinkReturns(1))

SpecLive == Init /\ [][Next]_vars /\ IoReturns

(***************************************************************************)
(* Reading the history.                                                    *)
(***************************************************************************)
Has(i, e) == \E j \in 1..Len(log[i]) : log[i][j] = e

Before(i, a, b) ==
    \E ja, jb \in 1..Len(log[i]) : ja < jb /\ log[i][ja] = a /\ log[i][jb] = b

SizeIndexes == 1..Len(options.sizes)

\* nothing of invocation i is in flight
Quiescent(i) ==
    /\ stage[i] # "UPLOADING"
    /\ \A k \in DOMAIN toFile[i] : toFile[i][k].status # "pending"
    /\ unlinkOp[i] # "pending"

\* the stages invocation i has entered, in order
StageOf(e) ==
    CASE e.ev = "uploadIssued" -> <<"UPLOADING">>
      [] e.ev = "processImages" -> <<"TRANSFORMING">>
      [] e.ev = "unlinkIssued" -> <<"CLEANING">>
      [] e.ev = "next" -> <<"DONE">>
      [] e.ev = "nextErr" -> <<"FAILED">>
      [] OTHER -> <<>>

RECURSIVE StagesIn(_)
StagesIn(l) == IF l = <<>> THEN <<>> ELSE StageOf(Head(l)) \o StagesIn(Tail(l))

StageTrace(i) == StagesIn(log[i])

(***************************************************************************)
(* C1: in every run of an invocation the master upload has completed       *)
(* before any size's toFile is issued, and every configured size's toFile  *)
(* has completed before fs.unlink of the master is issued, whatever the    *)
(* order in which the sizes complete.                                      *)
(***************************************************************************)
C1_UploadThenSizesThenDelete ==
    \A i \in invs :
        /\ \A k \in SizeIndexes :
              Has(i, Ev("toFileIssued", k)) =>
                 Before(i, Ev("uploadDone", 0), Ev("toFileIssued", k))
        /\ (Has(i, Ev("unlinkIssued", 0)) \/ unlinkOp[i] # "idle") =>
              /\ Before(i, Ev("uploadDone", 0), Ev("unlinkIssued", 0))
              /\ \A k \in SizeIndexes :
                    /\ toFile[i][k].status = "ok"
                    /\ Before(i, Ev("toFileIssued", k), Ev("toFileDone", k))
                    /\ Before(i, Ev("toFileDone", k), Ev("unlinkIssued", 0))

\* two sizes, the second one written first, and the delete issued
C1_Witness ==
    \E i \in invs :
        /\ Len(options.sizes) = 2
        /\ Before(i, Ev("toFileDone", 2), Ev("toFileDone", 1))
        /\ Has(i, Ev("unlinkIssued", 0))

(***************************************************************************)
(* C2: an invocation goes START -> UPLOADING -> TRANSFORMING -> CLEANING   *)
(* -> DONE, and a failure of a stage leads straight to FAILED with every   *)
(* later stage skipped: after an upload failure no toFile and no unlink is *)
(* issued, and after a toFile failure no unlink is issued.                 *)
(***************************************************************************)
StagePath == <<"UPLOADING", "TRANSFORMING", "CLEANING", "DONE">>

C2_StagesInOrderFailureSkips ==
    \A i \in invs :
        LET tr == StageTrace(i) IN
        /\ \/ \E m \in 0..4 : tr = SubSeq(StagePath, 1, m)
           \/ \E m \in 1..3 : tr = SubSeq(StagePath, 1, m) \o <<"FAILED">>
        /\ stage[i] = IF tr = <<>> THEN "START" ELSE tr[Len(tr)]
        /\ Has(i, Ev("uploadFailed", 0)) =>
              /\ stage[i] = "FAILED"
              /\ toFile[i] = <<>> /\ unlinkOp[i] = "idle"
              /\ ~Has(i, Ev("processImages", 0))
              /\ ~Has(i, Ev("unlinkIssued", 0))
              /\ \A k \in SizeIndexes : ~Has(i, Ev("toFileIssued", k))
        /\ (\E k \in SizeIndexes : Has(i, Ev("toFileFailed", k))) =>
              /\ stage[i] = "FAILED"
              /\ unlinkOp[i] = "idle"
              /\ ~Has(i, Ev("unlinkIssued", 0))

\* a size failed after another was written, and everything has come back
C2_Witness ==
    \E i \in invs :
        /\ Before(i, Ev("toFileDone", 1), Ev("toFileFailed", 2))
        /\ Quiescent(i)
        /\ StageTrace(i) = <<"UPLOADING", "TRANSFORMING", "FAILED">>

(***************************************************************************)
(* C3: next is called exactly once per invocation: never twice, and once   *)
(* everything issued has come back it has been called, also when several   *)
(* sizes fail, or when a size is written after another one failed.         *)
(***************************************************************************)
C3_NextExactlyOnce ==
    \A i \in invs :
        /\ nextCalls[i] <= 1
        /\ nextCalls[i] = 1 <=> stage[i] \in {"DONE", "FAILED"}
        /\ (stage[i] # "START" /\ Quiescent(i)) => nextCalls[i] = 1
        /\ nextCalls[i] =
              Cardinality({j \in 1..Len(log[i]) :
                              log[i][j].ev \in {"next", "nextErr"}})

\* two sizes: the first failed, the second failed or was written afterwards
C3_Witness ==
    \E i \in invs :
        /\ Has(i, Ev("toFileFailed", 1))
        /\ \/ Before(i, Ev("toFileFailed", 1), Ev("toFileFailed", 2))
           \/ Before(i, Ev("toFileFailed", 1), Ev("toFileDone", 2))
        /\ Quiescent(i)
        /\ nextCalls[i] = 1

(***************************************************************************)
(* C4: on completion either next was called with an error and res.sharper  *)
(* is not set, or res.sharper is set and next was called with no error;    *)
(* res.sharper is then the state masterUpload produced (dir, destination   *)
(* and filename), the one processImages and deleteMaster worked on.        *)
(***************************************************************************)
C4_ErrorXorUploadState ==
    \A i \in invs :
        /\ nextCalls[i] = 0 => resSharper[i] = NoState /\ nextErr[i] = NoErr
        /\ nextCalls[i] >= 1 =>
              \/ /\ stage[i] = "FAILED"
                 /\ nextErr[i] # NoErr
                 /\ resSharper[i] = NoState
              \/ /\ stage[i] = "DONE"
                 /\ nextErr[i] = NoErr
                 /\ resSharper[i] # NoState
                 /\ resSharper[i] = state[i]
                 /\ resSharper[i].dir \in Dirs
                 /\ resSharper[i].filename \in Names
                 /\ resSharper[i].destination
                       = options.location.s \o resSharper[i].dir
                 /\ master[i].path = resSharper[i].destination \o "/"
                                        \o resSharper[i].filename
                 /\ unlinkOp[i] = "ok"

\* both outcomes are seen: this one is the success after two sizes
C4_Witness ==
    \E i \in invs :
        /\ stage[i] = "DONE"
        /\ Len(options.sizes) = 2
        /\ resSharper[i] = state[i]
        /\ nextErr[i] = NoErr

(***************************************************************************)
(* What is on storage for invocation i.                                    *)
(***************************************************************************)
FilesOf(i) == {p \in DOMAIN fileSys : fileSys[p].by = i}

\* <destination>/<filename>
MasterPathOf(i) == state[i].destination \o "/" \o state[i].filename

\* <destination>/<filename>.<suffix>.<output>
OutputPath(i, k) ==
    state[i].destination \o "/" \o state[i].filename \o "."
        \o options.sizes[k].suffix \o "." \o options.output.s

DistinctSuffixes ==
    \A a, b \in SizeIndexes :
        a # b => options.sizes[a].suffix # options.sizes[b].suffix

(***************************************************************************)
(* C5: for an upload of an accepted type within the size limit, when the   *)
(* invocation is DONE and the suffixes are pairwise distinct, there is     *)
(* exactly one output file per configured size, at                         *)
(* <destination>/<filename>.<suffix>.<output>, and no file at the master   *)
(* path.                                                                   *)
(***************************************************************************)
C5_OneFilePerSizeNoMaster ==
    \A i \in invs :
        (/\ stage[i] = "DONE"
         /\ req[i].parts = 1 /\ Accepted(i) /\ ~req[i].big
         /\ DistinctSuffixes) =>
            /\ FilesOf(i) = {OutputPath(i, k) : k \in SizeIndexes}
            /\ Cardinality(FilesOf(i)) = Len(options.sizes)
            /\ \A k \in SizeIndexes :
                  fileSys[OutputPath(i, k)].kind = "variant"
            /\ ~Exists(fileSys, MasterPathOf(i))

\* two sizes of different suffixes and another output type, DONE
C5_Witness ==
    \E i \in invs :
        /\ stage[i] = "DONE"
        /\ Len(options.sizes) = 2 /\ DistinctSuffixes
        /\ options.output = Str("png")

(***************************************************************************)
(* C6: for an upload whose media type's extension is not in options.accept *)
(* the invocation ends FAILED with the FILE_TYPE_UNSUPPORTED error, whose  *)
(* field is the rejected extension (null for a media type that has no      *)
(* extension), no master file is written and no variant is derived.        *)
(***************************************************************************)
C6_UnacceptedTypeFails ==
    \A i \in invs :
        (/\ req[i].parts >= 1
         /\ ~Includes(options.accept, req[i].ext)
         /\ stage[i] \notin {"START", "UPLOADING"}) =>
            /\ stage[i] = "FAILED"
            /\ nextErr[i].code = "FILE_TYPE_UNSUPPORTED"
            /\ nextErr[i].message = "file not acceptable"
            /\ req[i].ext # MimeNone => nextErr[i].field = req[i].ext
            /\ req[i].ext = MimeNone => nextErr[i].field = Null
            /\ ~Exists(fileSys, MasterPathOf(i))
            /\ FilesOf(i) = {}
            /\ toFile[i] = <<>>
            /\ master[i].calls = <<>>
            /\ \A k \in SizeIndexes : ~Has(i, Ev("toFileIssued", k))

\* a png is refused by a configuration that accepts gif only... or a gif by
\* the default one: here the gif, with a size configured
C6_Witness ==
    \E i \in invs :
        /\ req[i].ext = "gif"
        /\ stage[i] = "FAILED"
        /\ nextErr[i].field = "gif"
        /\ Len(options.sizes) >= 1

(***************************************************************************)
(* C7: if a size's derivation fails after another size's has succeeded,    *)
(* then in FAILED the variant already written is still on storage and so   *)
(* is the master (no rollback, no cleanup).                                *)
(***************************************************************************)
C7_NoRollbackMasterKept ==
    \A i \in invs :
        \A k, f \in SizeIndexes :
            (/\ stage[i] = "FAILED"
             /\ Before(i, Ev("toFileDone", k), Ev("toFileFailed", f))) =>
                /\ Exists(fileSys, OutputPath(i, k))
                /\ fileSys[OutputPath(i, k)].kind = "variant"
                /\ Exists(fileSys, MasterPathOf(i))
                /\ fileSys[MasterPathOf(i)] = MasterFile(i)
                /\ unlinkOp[i] = "idle"

\* the second size was written, then the first failed; all has come back
C7_Witness ==
    \E i \in invs :
        /\ stage[i] = "FAILED"
        /\ Before(i, Ev("toFileDone", 2), Ev("toFileFailed", 1))
        /\ Quiescent(i)

(***************************************************************************)
(* C8: when fs.unlink of the master fails, the invocation ends FAILED with *)
(* that error, the master file is still on storage and every configured    *)
(* size's variant file is present.                                         *)
(***************************************************************************)
C8_CleanupFailureKeepsFiles ==
    \A i \in invs :
        unlinkOp[i] = "err" =>
            /\ stage[i] = "FAILED"
            /\ nextErr[i].at = "unlink"
            /\ Exists(fileSys, MasterPathOf(i))
            /\ \A k \in SizeIndexes :
                  /\ Exists(fileSys, OutputPath(i, k))
                  /\ fileSys[OutputPath(i, k)].kind = "variant"

(***************************************************************************)
(* C9: for every options object of the caller, the resolved configuration  *)
(* holds the caller's value for every key the caller gave and the default  *)
(* for every other key, each key on its own; and no step of a later        *)
(* invocation changes the resolved configuration.                          *)
(***************************************************************************)
ResolvedKeyByKey ==
    /\ DOMAIN options = DOMAIN defaultOptions \cup DOMAIN overrides
    /\ \A k \in DOMAIN options :
          options[k] = IF k \in DOMAIN overrides THEN overrides[k]
                       ELSE defaultOptions[k]

C9_ConfigResolvedAndReadOnly ==
    /\ []ResolvedKeyByKey
    /\ [][options' = options /\ overrides' = overrides]_vars

\* two keys given, one of them unknown to the defaults, a default kept, and
\* the invocation has run through every stage
C9_Witness ==
    \E i \in invs :
        /\ stage[i] = "DONE"
        /\ DOMAIN overrides = {"rotate", "watermark"}
        /\ options.rotate = Num(90)
        /\ options.watermark = JsTrue
        /\ options.resize = JsTrue

(***************************************************************************)
(* C10: two configurations that differ only in that one sets grayscale:    *)
(* true and the other greyscale: true give every size the same calls on    *)
(* its query, and the same files; likewise for normalize and normalise.    *)
(* The other configuration is the present one with the two keys' values    *)
(* exchanged.                                                              *)
(***************************************************************************)
SwapKeys(opts, a, b) == [opts EXCEPT ![a] = opts[b], ![b] = opts[a]]

OneIsTrue(a, b) == (options[a] = JsTrue) # (options[b] = JsTrue)

\* what invocation i has issued and written is what it would have under o
SameOutcomeUnder(i, o) ==
    \A k \in DOMAIN toFile[i] :
        /\ toFile[i][k].calls = BuildQuery(o, o.sizes[k])
        /\ toFile[i][k].image = CallsUpTo(o, k)
        /\ toFile[i][k].path = VariantPath(state[i], o.sizes[k], o)
        /\ toFile[i][k].status = "ok" =>
              fileSys[toFile[i][k].path] = VariantFile(i, CallsUpTo(o, k))

C10_AliasEquivalence ==
    \A i \in invs :
        /\ OneIsTrue("grayscale", "greyscale") =>
              SameOutcomeUnder(i, SwapKeys(options, "grayscale", "greyscale"))
        /\ OneIsTrue("normalize", "normalise") =>
              SameOutcomeUnder(i, SwapKeys(options, "normalize", "normalise"))

\* greyscale: true alone, two sizes, the second written in grayscale
C10_Witness ==
    \E i \in invs :
        /\ options.greyscale = JsTrue /\ options.grayscale = JsFalse
        /\ Len(options.sizes) = 2
        /\ toFile[i] # <<>>
        /\ toFile[i][2].status = "ok"
        /\ \E j \in 1..Len(toFile[i][2].calls) :
              toFile[i][2].calls[j] = Op("grayscale", <<>>)

(***************************************************************************)
(* What an image was made with: each call on a sharp instance sets its     *)
(* parameters, so the last call of a name is the one that counts.          *)
(***************************************************************************)
CallsNamed(calls, name) == {j \in 1..Len(calls) : calls[j].op = name}

LastCall(calls, name) ==
    LET js == CallsNamed(calls, name)
    IN  calls[CHOOSE j \in js : \A h \in js : h <= j]

(***************************************************************************)
(* C11 (as amended): with sizes of distinct suffixes, after success every  *)
(* size's output file exists and, when resize is on, it was made with its  *)
(* own width and height.  The sizes do not work on handles of their own:   *)
(* every iteratee calls the one sharp instance opened on the master, so    *)
(* the calls a size's toFile reads are those of the sizes before it        *)
(* followed by its own.                                                    *)
(***************************************************************************)
C11_OwnDimensionsOnSharedHandle ==
    \A i \in invs :
        /\ \A k \in DOMAIN toFile[i] :
              /\ toFile[i][k].image =
                    (IF k = 1 THEN <<>> ELSE toFile[i][k - 1].image)
                       \o toFile[i][k].calls
              /\ options.resize = JsTrue =>
                    LastCall(toFile[i][k].image, "resize") =
                       Op("resize", <<Num(options.sizes[k].width),
                                      Num(options.sizes[k].height)>>)
              /\ options.resize # JsTrue =>
                    CallsNamed(toFile[i][k].image, "resize") = {}
        /\ toFile[i] # <<>> =>
              master[i].calls = toFile[i][Len(toFile[i])].image
        /\ (stage[i] = "DONE" /\ DistinctSuffixes) =>
              \A k \in SizeIndexes :
                 /\ Exists(fileSys, OutputPath(i, k))
                 /\ fileSys[OutputPath(i, k)] =
                       VariantFile(i, toFile[i][k].image)

\* two sizes of different suffixes and dimensions, resized, both written
C11_Witness ==
    \E i \in invs :
        /\ stage[i] = "DONE"
        /\ Len(options.sizes) = 2 /\ DistinctSuffixes
        /\ options.resize = JsTrue
        /\ options.sizes[1].width # options.sizes[2].width
        /\ Len(fileSys[OutputPath(i, 2)].image)
              > Len(toFile[i][2].calls)

\* C11 as stated: each size is produced by its own pipeline only, and the
\* handle opened on the master is not changed by the derivations
C11_HandleOnlyRead ==
    \A i \in invs :
        (stage[i] = "DONE" /\ Len(options.sizes) = 2 /\ DistinctSuffixes) =>
            /\ \A k \in SizeIndexes :
                  /\ Exists(fileSys, OutputPath(i, k))
                  /\ fileSys[OutputPath(i, k)].image =
                        BuildQuery(options, options.sizes[k])
            /\ master[i].calls = <<>>

(***************************************************************************)
(* The paths invocation i has written so far.                              *)
(***************************************************************************)
Wrote(i) ==
    (IF Has(i, Ev("uploadDone", 0)) /\ req[i].parts = 1
     THEN {master[i].path} ELSE {})
    \cup {toFile[i][k].path : k \in {h \in DOMAIN toFile[i] :
                                        toFile[i][h].status = "ok"}}

SameTarget(i, j) ==
    /\ state[i].destination = state[j].destination
    /\ state[i].filename = state[j].filename

(***************************************************************************)
(* C12 (as amended): two invocations with the same input and the same      *)
(* configuration whose generated directory and filename are not both the   *)
(* same never write the same master path or variant path, and each ends    *)
(* with its own set of output files.  Nothing keeps randomstring from      *)
(* giving both the same filename on the same day; then they write the same *)
(* paths.                                                                  *)
(***************************************************************************)
C12_DistinctNamesNeverCollide ==
    \A i, j \in invs :
        (/\ i # j
         /\ state[i] # NoState /\ state[j] # NoState
         /\ ~SameTarget(i, j)) =>
            /\ Wrote(i) \cap Wrote(j) = {}
            /\ \A p \in Wrote(i) \cap DOMAIN fileSys : fileSys[p].by = i
            /\ stage[i] = "DONE" =>
                  /\ FilesOf(i) = {OutputPath(i, k) : k \in SizeIndexes}
                  /\ Cardinality(FilesOf(i)) = Len(options.sizes)
                  /\ FilesOf(i) \cap FilesOf(j) = {}

\* both are DONE, each with its two files
C12_Witness ==
    /\ invs = {1, 2}
    /\ stage[1] = "DONE" /\ stage[2] = "DONE"
    /\ ~SameTarget(1, 2)
    /\ Len(options.sizes) = 2
    /\ Cardinality(FilesOf(1)) = 2 /\ Cardinality(FilesOf(2)) = 2

\* C12 as stated: whatever the generated names, no path is written by both
C12_NeverCollide ==
    \A i, j \in invs : i # j => Wrote(i) \cap Wrote(j) = {}

(***************************************************************************)
(* The toggles, in the order the iteratee looks at them, and when a toggle *)
(* is not in its skip state.                                               *)
(***************************************************************************)
FixedOrder ==
    <<"background", "resize", "crop", "embed", "max", "min",
      "withoutEnlargement", "ignoreAspectRatio", "extract", "trim",
      "flatten", "extend", "negate", "rotate", "flip", "flop", "blur",
      "sharpen", "gamma", "grayscale", "normalize", "quality", "progressive">>

BooleanGated ==
    {"resize", "embed", "max", "min", "withoutEnlargement",
     "ignoreAspectRatio", "flatten", "negate", "flip", "flop", "sharpen",
     "progressive"}

ValueGated == {"extract", "trim", "extend", "blur", "gamma", "quality"}

Active(opts, name) ==
    CASE name = "background" -> TRUE
      [] name \in BooleanGated -> opts[name] = JsTrue
      [] name \in ValueGated -> opts[name] # JsFalse
      [] name = "crop" -> opts.crop.t = "str" /\ opts.crop.s \in DOMAIN sharpGravity
      [] name = "rotate" -> opts.rotate \in {Num(0), Num(90), Num(180), Num(270)}
      [] name = "grayscale" -> JsTrue \in {opts.grayscale, opts.greyscale}
      [] name = "normalize" -> JsTrue \in {opts.normalize, opts.normalise}

OpNames(calls) == [j \in 1..Len(calls) |-> calls[j].op]

(***************************************************************************)
(* C13: for every configuration and every size, the operations called on   *)
(* that size's query are exactly the toggles not in their skip state, in   *)
(* the fixed order background, resize, crop, ..., quality, progressive;    *)
(* and they are the same operations for every size.                        *)
(***************************************************************************)
C13_FixedOrderSubsequence ==
    \A i \in invs :
        \A k \in DOMAIN toFile[i] :
            /\ OpNames(toFile[i][k].calls) =
                  SelectSeq(FixedOrder, LAMBDA n : Active(options, n))
            /\ OpNames(toFile[i][k].calls) = OpNames(toFile[i][1].calls)

\* two toggles besides the defaults are on, for two sizes
C13_Witness ==
    \E i \in invs :
        /\ Len(options.sizes) = 2
        /\ toFile[i] # <<>>
        /\ OpNames(toFile[i][2].calls) =
              <<"background", "resize", "trim", "blur">>

Applied(calls, name) == CallsNamed(calls, name) # {}

AppliedWith(calls, name, args) ==
    \E j \in 1..Len(calls) : calls[j] = Op(name, args)

\* the configured value of a toggle is false (both spellings, where it has two)
ConfiguredFalse(opts, name) ==
    CASE name = "grayscale" -> opts.grayscale = JsFalse /\ opts.greyscale = JsFalse
      [] name = "normalize" -> opts.normalize = JsFalse /\ opts.normalise = JsFalse
      [] OTHER -> opts[name] = JsFalse

Toggles == {FixedOrder[j] : j \in 1..Len(FixedOrder)}

(***************************************************************************)
(* C14 (as amended): every toggle but the background colour is skipped for *)
(* every size when its configured value is false; the background colour is *)
(* always applied, with whatever is configured, false included.  Of the    *)
(* toggles that carry a value and are not false: extract and extend are    *)
(* applied with the value, trim and quality with the value made an         *)
(* integer, blur and gamma without argument for true and else with the     *)
(* value made a number, rotate only for 0, 90, 180 and 270, crop only for  *)
(* a gravity name sharp knows.                                             *)
(***************************************************************************)
C14_GatingAsCoded ==
    \A i \in invs :
        \A k \in DOMAIN toFile[i] :
            LET calls == toFile[i][k].calls
            IN  /\ AppliedWith(calls, "background", <<options.background>>)
                /\ \A name \in Toggles \ {"background"} :
                       ConfiguredFalse(options, name) => ~Applied(calls, name)
                /\ \A name \in {"extract", "extend"} :
                       options[name] # JsFalse =>
                           AppliedWith(calls, name, <<options[name]>>)
                /\ \A name \in {"trim", "quality"} :
                       options[name] # JsFalse =>
                           AppliedWith(calls, name, <<ToInteger(options[name])>>)
                /\ \A name \in {"blur", "gamma"} :
                       /\ options[name] = JsTrue => AppliedWith(calls, name, <<>>)
                       /\ options[name] \notin {JsTrue, JsFalse} =>
                              AppliedWith(calls, name, <<ToNumber(options[name])>>)
                /\ Applied(calls, "rotate") <=> ValidRotate(options.rotate)
                /\ ValidRotate(options.rotate) =>
                       AppliedWith(calls, "rotate", <<options.rotate>>)
                /\ Applied(calls, "crop") <=> HasGravity(options.crop)

\* background false is handed to sharp, trim true becomes trim(1), blur true blur()
C14_Witness ==
    \E i \in invs :
        /\ toFile[i] # <<>>
        /\ options.background = JsFalse
        /\ AppliedWith(toFile[i][1].calls, "background", <<JsFalse>>)

\* the statement as first made: false skips every toggle, the background
\* colour included, and any other value is handed on as it is
C14_GatedByFalse ==
    \A i \in invs :
        \A k \in DOMAIN toFile[i] :
            LET calls == toFile[i][k].calls
            IN  /\ \A name \in Toggles :
                       ConfiguredFalse(options, name) => ~Applied(calls, name)
                /\ \A name \in ValueGated :
                       options[name] # JsFalse =>
                           AppliedWith(calls, name, <<options[name]>>)

FailureEvents == {"uploadFailed", "toFileFailed", "unlinkFailed"}

\* the places in the log of invocation i where an operation called back
\* with an error
Failures(i) == {j \in 1..Len(log[i]) : log[i][j].ev \in FailureEvents}

\* err is the error the callback of event e was called with
ErrorOf(e, err) ==
    CASE e.ev = "uploadFailed" -> err.at \in {"fileFilter", "multer"}
      [] e.ev = "toFileFailed" -> err.at = "toFile" /\ err.k = e.k
      [] e.ev = "unlinkFailed" -> err.at = "unlink"
      [] OTHER -> FALSE

(***************************************************************************)
(* C15: an invocation is FAILED exactly when one of its operations has     *)
(* called back with an error, and the error next was called with is the    *)
(* first of them: next(err) follows it at once and is called once, so the  *)
(* errors of sizes failing later are not delivered.                        *)
(***************************************************************************)
C15_FirstErrorDelivered ==
    \A i \in invs :
        /\ stage[i] = "FAILED" <=> Failures(i) # {}
        /\ Failures(i) # {} =>
              LET f == CHOOSE j \in Failures(i) : \A h \in Failures(i) : j <= h
              IN  /\ ErrorOf(log[i][f], nextErr[i])
                  /\ f < Len(log[i]) /\ log[i][f + 1] = Ev("nextErr", 0)
                  /\ {j \in 1..Len(log[i]) : log[i][j].ev = "nextErr"} = {f + 1}
                  /\ nextCalls[i] = 1

\* both sizes have failed, the second one first: its error is the one delivered
C15_Witness ==
    \E i \in invs :
        /\ stage[i] = "FAILED"
        /\ Before(i, Ev("toFileFailed", 2), Ev("toFileFailed", 1))
        /\ nextErr[i] = LibError("SHARP", "toFile", 2)

\* the events of invocation i that follow its next(err)
AfterFailure(i) ==
    {h \in 1..Len(log[i]) :
        \E j \in 1..Len(log[i]) : j < h /\ log[i][j] = Ev("nextErr", 0)}

(***************************************************************************)
(* C16 (as amended): once next(err) has been called, no further stage is   *)
(* started and the caller is not called again: fs.unlink of the master is  *)
(* never issued afterwards, no toFile is issued afterwards, and nothing is *)
(* pending but toFile calls issued before the failure.  Those are not      *)
(* cancelled: all that happens after the failure is that they call back.   *)
(***************************************************************************)
C16_NoStageAfterFailure ==
    \A i \in invs :
        /\ \A h \in AfterFailure(i) :
               /\ log[i][h].ev \in {"toFileDone", "toFileFailed"}
               /\ \E j \in 1..Len(log[i]) :
                      /\ j < h
                      /\ log[i][j] = Ev("toFileIssued", log[i][h].k)
                      /\ \A g \in AfterFailure(i) : j < g
        /\ stage[i] = "FAILED" =>
               /\ unlinkOp[i] # "pending"
               /\ nextCalls[i] = 1
               /\ resSharper[i] = NoState

\* a size's file is written after the failure of the other was delivered
C16_Witness ==
    \E i \in invs :
        /\ stage[i] = "FAILED"
        /\ Before(i, Ev("nextErr", 0), Ev("toFileDone", 1))
        /\ Exists(fileSys, toFile[i][1].path)

\* the statement as first made: with the failure delivered, nothing of the
\* invocation is pending any more
C16_NothingPendingAfterFailure ==
    \A i \in invs : stage[i] = "FAILED" => Quiescent(i)

\* invocation i has been started and next has not been called yet
InFlight(i) == stage[i] \in {"UPLOADING", "TRANSFORMING", "CLEANING"}

(***************************************************************************)
(* C17: no step of one invocation changes state, other than files, that    *)
(* another invocation in flight works with; in particular the setting of   *)
(* sharp's cache stays as it is while another invocation is in flight.     *)
(* sharp.cache(false) in deleteMaster switches the cache of the whole      *)
(* process off: the formula does not hold.                                 *)
(***************************************************************************)
C17_NoSharedStateButFiles ==
    [][\A i, j \in invs :
          (i # j /\ InFlight(i) /\ log'[j] # log[j]) =>
              sharpCache' = sharpCache]_vars

(***************************************************************************)
(* C18: if every callback that has been asked for is called in the end     *)
(* (multer's, each toFile's, fs.unlink's), an invocation that has been     *)
(* started reaches DONE or FAILED, for every number of sizes and every mix *)
(* of sizes that succeed and fail.                                         *)
(***************************************************************************)
C18_Terminates == (stage[1] # "START") ~> (stage[1] \in {"DONE", "FAILED"})

\* one size written, the other failed, nothing left in flight, next called
C18_Witness ==
    /\ stage[1] = "FAILED"
    /\ Len(options.sizes) = 2
    /\ toFile[1] # <<>>
    /\ toFile[1][1].status = "ok"
    /\ toFile[1][2].status = "err"
    /\ Quiescent(1)

\* invocation i runs with no size and its one file was accepted and stored
EmptySizesRun(i) ==
    /\ options.sizes = <<>>
    /\ req[i].parts = 1
    /\ Has(i, Ev("uploadDone", 0))

(***************************************************************************)
(* C19: with sizes empty and the upload accepted, processImages issues no  *)
(* toFile and writes no variant, async.each calls back at once without an  *)
(* error and fs.unlink of the master is issued in the same turn; when the  *)
(* unlink has succeeded the invocation is DONE, res.sharper is the upload  *)
(* state and no file of the invocation is on storage.  The only way such   *)
(* an invocation does not end DONE is fs.unlink itself failing.            *)
(***************************************************************************)
C19_EmptySizesDeletesMaster ==
    \A i \in invs :
        EmptySizesRun(i) =>
            /\ toFile[i] = <<>>
            /\ Len(log[i]) >= 4
            /\ SubSeq(log[i], 1, 4) =
                  <<Ev("uploadIssued", 0), Ev("uploadDone", 0),
                    Ev("processImages", 0), Ev("unlinkIssued", 0)>>
            /\ FilesOf(i) \subseteq {MasterPathOf(i)}
            /\ stage[i] \in {"CLEANING", "DONE", "FAILED"}
            /\ stage[i] = "CLEANING" <=> unlinkOp[i] = "pending"
            /\ stage[i] = "DONE" <=> unlinkOp[i] = "ok"
            /\ stage[i] = "DONE" =>
                   /\ resSharper[i] = state[i]
                   /\ nextCalls[i] = 1 /\ nextErr[i] = NoErr
                   /\ FilesOf(i) = {}
            /\ stage[i] = "FAILED" =>
                   unlinkOp[i] = "err" /\ nextErr[i].at = "unlink"

C19_Witness ==
    \E i \in invs :
        /\ EmptySizesRun(i)
        /\ stage[i] = "DONE"
        /\ resSharper[i] = state[i]
        /\ ~Exists(fileSys, MasterPathOf(i))

(***************************************************************************)
(* C20: whenever an invocation is in the transform stage, the master file  *)
(* is on storage at state.destination + '/' + state.filename.  For a       *)
(* request with no file in options.field multer calls back without an      *)
(* error and nothing was stored: the formula does not hold.                *)
(***************************************************************************)
C20_MasterExistsWhenTransforming ==
    \A i \in invs :
        stage[i] = "TRANSFORMING" =>
            /\ Exists(fileSys, MasterPathOf(i))
            /\ fileSys[MasterPathOf(i)].kind = "master"

====
